---- MODULE Spec2Model ----
(***************************************************************************)
(* Model of the mining-pool Operator of network/src/operator.rs.           *)
(*                                                                         *)
(* Two tasks share the Operator: the template refresher spawned by         *)
(* `initialize` and the single consumer that calls `update` for every      *)
(* OperatorRequest.  Each task is cut at its await points that precede an  *)
(* access to shared state; the fields behind a tokio RwLock are read or    *)
(* written atomically within one step.                                     *)
(*                                                                         *)
(* Option<T> is a sequence of length at most one: <<>> is None, <<t>> is   *)
(* Some(t).  Unsigned 64-bit values are scaled to WORD_BITS bits, since    *)
(* the model checker's integers are 32 bits wide.                          *)
(***************************************************************************)
EXTENDS Integers, Sequences, FiniteSets, TLC

(* ---------------------------- bounds ---------------------------------- *)
MaxHeight == 1
MaxTemplates == 2
MaxRequests == 2

(* --------------------------- constants --------------------------------- *)
WORD_BITS == 8
HEIGHT_BITS == 4
U64_MAX == 2^WORD_BITS - 1
BASE_SHARE_DIFFICULTY == U64_MAX \div 5
NetworkDifficultyTarget == BASE_SHARE_DIFFICULTY \div 2

Provers == {"A", "B"}
Peers == {"1.2.3.4:9000"}
Nonces == {"N1", "N2"}
LocalIp == "local"
NodeTypes == {"Operator", "Prover"}

CoinbaseIds == 1..MaxTemplates
ProofValues == {NetworkDifficultyTarget, BASE_SHARE_DIFFICULTY, U64_MAX}
Proofs == [root : CoinbaseIds, nonce : Nonces, value : ProofValues]

PoolRegisterRequests == [kind : {"PoolRegister"}, peer_ip : Peers, prover : Provers]
\* A submitted proof was computed for the submitted nonce, over some header root.
PoolResponseRequests ==
    {r \in [kind : {"PoolResponse"}, peer_ip : Peers, prover : Provers, nonce : Nonces,
            proof : Proofs] : r.proof.nonce = r.nonce}
PoolBlockRequests ==
    {r \in [kind : {"PoolBlock"}, nonce : Nonces, proof : Proofs] : r.proof.nonce = r.nonce}

VARIABLES
    node_type,            \* E::NODE_TYPE
    address,              \* state.address : Option
    block_template,       \* Operator.block_template : Option<BlockTemplate>
    known_nonces,         \* Operator.known_nonces
    provers,              \* Operator.provers : address -> (last_submitted, share_difficulty)
    shares,               \* operator_state : (height, coinbase) -> prover -> count
    latest_block_height,  \* ledger().reader().latest_block_height()
    ready,                \* E::status().is_ready()
    r_pc,                 \* position of the refresher task
    r_built,              \* the template returned by get_block_template
    r_fresh,              \* history: the tick's check saw a template of height tip + 1
    r_failed,             \* history: the last template construction failed
    h_pc,                 \* position of the task running `update`
    h_req,                \* the request being handled : Option
    h_tmpl,               \* the local `block_template` snapshot : Option
    h_kind,               \* the variant of the last request matched by `update`
    peers_out,            \* requests sent to peers().router()
    ledger_out,           \* calls on the ledger: cache invalidations and router sends
    log,                  \* the last line logged by `update`
    next_cb,              \* the randomness of the next coinbase record
    n_requests,           \* number of requests taken from the queue
    nonces_rot,           \* history: the rotation whose clear emptied known_nonces
    history               \* history: one entry per finished PoolResponse

vars == <<node_type, address, block_template, known_nonces, provers, shares,
          latest_block_height, ready, r_pc, r_built, r_fresh, r_failed, h_pc, h_req,
          h_tmpl, h_kind,
          peers_out, ledger_out, log, next_cb, n_requests, nonces_rot, history>>

config_vars == <<node_type, address>>
cache_vars == <<block_template, known_nonces, nonces_rot>>
env_vars == <<latest_block_height, ready>>
refresher_vars == <<r_pc, r_built, r_fresh, r_failed, next_cb>>
handler_vars == <<h_pc, h_req, h_tmpl, h_kind, log, n_requests, history>>

\* Instant::now(): the clock advances with every request taken from the queue.
now == n_requests

(* ------------------------- pure helpers -------------------------------- *)

\* u32::saturating_add(1), with u32 scaled to HEIGHT_BITS bits.
U32_MAX == 2^HEIGHT_BITS - 1
saturating_add1(h) == IF h >= U32_MAX THEN U32_MAX ELSE h + 1

\* BlockTemplate::to_header_root: distinct templates have distinct roots.
to_header_root(t) == t.coinbase_record

\* N::posw().verify(height, difficulty_target, [header_root, nonce], proof)
posw_verify(height, target, root, nonce, proof) ==
    /\ proof.root = root
    /\ proof.nonce = nonce
    /\ proof.value <= target

\* ledger_reader.get_block_template: a template over the current tip.
get_block_template(tip, cb) ==
    [block_height |-> saturating_add1(tip),
     coinbase_record |-> cb,
     difficulty_target |-> NetworkDifficultyTarget]

\* Mutant of block_from: the block's height is derived from the ledger tip.
block_from_TipHeight(t, nonce, proof) ==
    IF posw_verify(t.block_height, t.difficulty_target, to_header_root(t), nonce, proof)
    THEN << [height |-> saturating_add1(latest_block_height),
             coinbase_record |-> t.coinbase_record, nonce |-> nonce] >>
    ELSE << >>

\* BlockHeader::from followed by Block::from: Some(block) iff the header is valid.
block_from(t, nonce, proof) ==
    IF posw_verify(t.block_height, t.difficulty_target, to_header_root(t), nonce, proof)
    THEN << [height |-> t.block_height, coinbase_record |-> t.coinbase_record, nonce |-> nonce] >>
    ELSE << >>

\* Mutant of ShareKey: the key is taken from the cache instead of the snapshot.
ShareKey_FromCache(t) ==
    <<block_template[1].block_height, block_template[1].coinbase_record>>

\* The key of increment_share: height and coinbase record of the snapshot.
ShareKey(t) == <<t.block_height, t.coinbase_record>>

\* OperatorState::increment_share
increment_share(s, key, prover) ==
    LET row == IF key \in DOMAIN s THEN s[key] ELSE [p \in {} |-> 0]
        cnt == IF prover \in DOMAIN row THEN row[prover] ELSE 0
        row2 == [p \in DOMAIN row \cup {prover} |-> IF p = prover THEN cnt + 1 ELSE row[p]]
    IN  [k \in DOMAIN s \cup {key} |-> IF k = key THEN row2 ELSE s[k]]

\* OperatorState::get_shares_for_block
get_shares_for_block(key) ==
    IF key \in DOMAIN shares THEN shares[key] ELSE [p \in {} |-> 0]

\* Mutant of is_block_template_stale: the tip is compared without the increment.
is_block_template_stale_NoIncrement ==
    IF block_template = << >> THEN TRUE
    ELSE latest_block_height # block_template[1].block_height

\* Mutant of is_block_template_stale: a cached template is never taken for stale.
is_block_template_stale_OnlyNone == block_template = << >>

\* The stale test of the refresher loop.
is_block_template_stale ==
    IF block_template = << >> THEN TRUE
    ELSE saturating_add1(latest_block_height) # block_template[1].block_height

(* ------------------------------ Init ----------------------------------- *)
Init ==
    /\ node_type \in NodeTypes
    /\ address \in {<< >>, << "operator" >>}
    /\ block_template = << >>
    /\ known_nonces = {}
    /\ provers = [p \in {} |-> 0]
    /\ shares = [k \in {} |-> 0]
    /\ latest_block_height = 0
    /\ ready \in BOOLEAN
    /\ r_pc = "init"
    /\ r_built = << >>
    /\ r_fresh = FALSE
    /\ r_failed = FALSE
    /\ h_pc = "idle"
    /\ h_req = << >>
    /\ h_tmpl = << >>
    /\ h_kind = "none"
    /\ peers_out = << >>
    /\ ledger_out = << >>
    /\ log = "none"
    /\ next_cb = 1
    /\ n_requests = 0
    /\ nonces_rot = 0
    /\ history = << >>

(* --------------------------- environment ------------------------------- *)
\* The ledger applies a block: the tip advances.
LedgerAdvance ==
    /\ latest_block_height < MaxHeight
    /\ latest_block_height' = latest_block_height + 1
    /\ UNCHANGED <<ready, config_vars, cache_vars, provers, shares, refresher_vars,
                   handler_vars, peers_out, ledger_out>>

\* The node's status changes between ready and not ready.
StatusChange ==
    /\ ready' = ~ready
    /\ UNCHANGED <<latest_block_height, config_vars, cache_vars, provers, shares,
                   refresher_vars, handler_vars, peers_out, ledger_out>>

(* ---------------------------- refresher -------------------------------- *)
r_frame == <<config_vars, env_vars, provers, shares, handler_vars, ledger_out>>

\* Mutant of Initialize: the task is spawned for an operator without an address.
Initialize_NoAddressCheck ==
    /\ r_pc = "init"
    /\ r_pc' = IF node_type = "Operator" THEN "loop" ELSE "off"
    /\ UNCHANGED <<r_built, r_fresh, r_failed, next_cb, cache_vars, peers_out, r_frame>>

\* Operator::initialize: the task is spawned only for an operator with an address.
Initialize ==
    /\ r_pc = "init"
    /\ r_pc' = IF node_type = "Operator" /\ address # << >> THEN "loop" ELSE "off"
    /\ UNCHANGED <<r_built, r_fresh, r_failed, next_cb, cache_vars, peers_out, r_frame>>

\* Top of the loop while the node is not ready.
RefresherNotReady ==
    /\ r_pc = "loop"
    /\ ~ready
    /\ r_pc' = "sleep"
    /\ UNCHANGED <<r_built, r_fresh, r_failed, next_cb, cache_vars, peers_out, r_frame>>

\* The staleness check under the read lock of block_template.
RefresherCheck ==
    /\ r_pc = "loop"
    /\ ready
    /\ r_pc' = IF is_block_template_stale THEN "build" ELSE "sleep"
    /\ r_fresh' = /\ block_template # << >>
                  /\ block_template[1].block_height = latest_block_height + 1
    /\ UNCHANGED <<r_built, r_failed, next_cb, cache_vars, peers_out, r_frame>>

\* spawn_blocking(get_block_template): reads the tip when it runs.
RefresherBuildOk ==
    /\ r_pc = "build"
    /\ next_cb <= MaxTemplates
    /\ r_built' = << get_block_template(latest_block_height, next_cb) >>
    /\ next_cb' = next_cb + 1
    /\ r_pc' = "write"
    /\ r_failed' = FALSE
    /\ UNCHANGED <<r_fresh, cache_vars, peers_out, r_frame>>

\* Mutant of RefresherBuildErr: the task ends on the first failed construction.
RefresherBuildErr_Exit ==
    /\ r_pc = "build"
    /\ r_built' = << >>
    /\ r_pc' = "off"
    /\ r_failed' = TRUE
    /\ UNCHANGED <<r_fresh, next_cb, cache_vars, peers_out, r_frame>>

\* get_block_template or the blocking task failed: log and sleep.
RefresherBuildErr ==
    /\ r_pc = "build"
    /\ r_built' = << >>
    /\ r_pc' = "sleep"
    /\ r_failed' = TRUE
    /\ UNCHANGED <<r_fresh, next_cb, cache_vars, peers_out, r_frame>>

\* *operator.block_template.write().await = Some(block_template.clone())
RefresherWriteTemplate ==
    /\ r_pc = "write"
    /\ block_template' = r_built
    /\ r_pc' = "clear"
    /\ UNCHANGED <<known_nonces, nonces_rot, r_built, r_fresh, r_failed, next_cb, peers_out,
                   r_frame>>

\* operator.known_nonces.write().await.clear()
RefresherClearNonces ==
    /\ r_pc = "clear"
    /\ known_nonces' = {}
    /\ nonces_rot' = r_built[1].coinbase_record
    /\ r_pc' = "send"
    /\ UNCHANGED <<block_template, r_built, r_fresh, r_failed, next_cb, peers_out, r_frame>>

\* peers().router().send(MessagePropagatePoolServer(NewBlockTemplate))
RefresherSend ==
    /\ r_pc = "send"
    /\ peers_out' = Append(peers_out,
          [type |-> "NewBlockTemplate", to |-> "pool", difficulty |-> 0, template |-> r_built[1]])
    /\ r_built' = << >>
    /\ r_pc' = "sleep"
    /\ UNCHANGED <<r_fresh, r_failed, next_cb, cache_vars, r_frame>>

\* tokio::time::sleep(HEARTBEAT_IN_SECONDS) elapsed.
RefresherWake ==
    /\ r_pc = "sleep"
    /\ r_pc' = "loop"
    /\ r_fresh' = FALSE
    /\ UNCHANGED <<r_built, r_failed, next_cb, cache_vars, peers_out, r_frame>>

(* ----------------------------- update ---------------------------------- *)
h_frame == <<config_vars, env_vars, refresher_vars, nonces_rot, block_template>>

\* The UnconfirmedBlock requests among the calls on the ledger.
UnconfirmedBlocks(out) == SelectSeq(out, LAMBDA m : m.op = "UnconfirmedBlock")

\* Mutant of broadcast_block: the cache is invalidated before the block is known to
\* exist, and again is not when it does.
broadcast_block_InvalidateAlways(out, block) ==
    IF block = << >>
    THEN Append(out, [op |-> "invalidate_coinbase_cache", ip |-> LocalIp, block |-> << >>])
    ELSE out \o << [op |-> "UnconfirmedBlock", ip |-> LocalIp, block |-> block],
                   [op |-> "invalidate_coinbase_cache", ip |-> LocalIp, block |-> << >>] >>


\* What the handler appends to the ledger for an assembled block:
\* invalidate_coinbase_cache, then router().send(UnconfirmedBlock(local_ip, block)).
broadcast_block(out, block) ==
    IF block = << >> THEN out
    ELSE out \o << [op |-> "invalidate_coinbase_cache", ip |-> LocalIp, block |-> << >>],
                   [op |-> "UnconfirmedBlock", ip |-> LocalIp, block |-> block] >>

\* Mutant of or_insert: a new prover starts at the easiest target.
or_insert_MaxDifficulty(ps, a, t) ==
    IF a \in DOMAIN ps THEN ps
    ELSE [p \in DOMAIN ps \cup {a} |->
            IF p = a THEN [last_submitted |-> t, share_difficulty |-> U64_MAX]
            ELSE ps[p]]

\* Mutant of or_insert: the entry of a known prover is overwritten.
or_insert_Overwrite(ps, a, t) ==
    [p \in DOMAIN ps \cup {a} |->
        IF p = a THEN [last_submitted |-> t, share_difficulty |-> BASE_SHARE_DIFFICULTY]
        ELSE ps[p]]

\* provers.entry(address).or_insert((Instant::now(), BASE_SHARE_DIFFICULTY))
or_insert(ps, a, t) ==
    IF a \in DOMAIN ps THEN ps
    ELSE [p \in DOMAIN ps \cup {a} |->
            IF p = a THEN [last_submitted |-> t, share_difficulty |-> BASE_SHARE_DIFFICULTY]
            ELSE ps[p]]

\* The history entry of a finished PoolResponse.
\*   valid:   the proof verifies against the snapshot at the prover's share difficulty
\*   wins:    the proof meets the difficulty target of the snapshot's header
\*   rotated: the cache no longer held the snapshot when the request finished
\*   set_rot: the rotation known_nonces belonged to when the request finished
\*   sent:    the UnconfirmedBlock requests the request sent to the ledger router
Entry(req, t, valid, outcome, sent) ==
    [height |-> t.block_height, coinbase_record |-> t.coinbase_record,
     prover |-> req.prover, nonce |-> req.nonce, root |-> req.proof.root,
     valid |-> valid, wins |-> block_from(t, req.nonce, req.proof) # << >>,
     rotated |-> block_template # << t >>, set_rot |-> nonces_rot,
     outcome |-> outcome, sent |-> sent]

\* Mutant of RegisterStart: the prover is ensured before the template is looked at.
RegisterStart_EnsureFirst(req) ==
    /\ h_pc = "idle"
    /\ n_requests < MaxRequests
    /\ req.kind = "PoolRegister"
    /\ n_requests' = n_requests + 1
    /\ h_kind' = req.kind
    /\ provers' = or_insert(provers, req.prover, n_requests + 1)
    /\ IF block_template = << >>
       THEN /\ log' = "PoolRegister: no template"
            /\ UNCHANGED <<h_pc, h_req, h_tmpl>>
       ELSE /\ h_pc' = "reg_ensure"
            /\ h_req' = << req >>
            /\ h_tmpl' = block_template
            /\ UNCHANGED log
    /\ UNCHANGED <<history, known_nonces, shares, peers_out, ledger_out, h_frame>>

\* PoolRegister: the template is read and cloned; None logs and returns.
RegisterStart(req) ==
    /\ h_pc = "idle"
    /\ n_requests < MaxRequests
    /\ req.kind = "PoolRegister"
    /\ n_requests' = n_requests + 1
    /\ h_kind' = req.kind
    /\ IF block_template = << >>
       THEN /\ log' = "PoolRegister: no template"
            /\ UNCHANGED <<h_pc, h_req, h_tmpl>>
       ELSE /\ h_pc' = "reg_ensure"
            /\ h_req' = << req >>
            /\ h_tmpl' = block_template
            /\ UNCHANGED log
    /\ UNCHANGED <<history, known_nonces, provers, shares, peers_out,
                   ledger_out, h_frame>>

\* PoolRegister: ensure the prover exists, then route a PoolRequest to the peer.
RegisterEnsureSend ==
    /\ h_pc = "reg_ensure"
    /\ LET req == h_req[1]
           ps == or_insert(provers, req.prover, now)
       IN  /\ provers' = ps
           /\ peers_out' = Append(peers_out,
                 [type |-> "PoolRequest", to |-> req.peer_ip,
                  difficulty |-> ps[req.prover].share_difficulty, template |-> h_tmpl[1]])
    /\ h_pc' = "idle"
    /\ h_req' = << >>
    /\ h_tmpl' = << >>
    /\ log' = "PoolRequest sent"
    /\ UNCHANGED <<h_kind, n_requests, history, known_nonces, shares, ledger_out, h_frame>>

\* PoolResponse: the template is read and cloned; None logs and returns.
ResponseStart(req) ==
    /\ h_pc = "idle"
    /\ n_requests < MaxRequests
    /\ req.kind = "PoolResponse"
    /\ n_requests' = n_requests + 1
    /\ h_kind' = req.kind
    /\ IF block_template = << >>
       THEN /\ log' = "PoolResponse: no template"
            /\ UNCHANGED <<h_pc, h_req, h_tmpl>>
       ELSE /\ h_pc' = "resp_check"
            /\ h_req' = << req >>
            /\ h_tmpl' = block_template
            /\ UNCHANGED log
    /\ UNCHANGED <<history, known_nonces, provers, shares, peers_out,
                   ledger_out, h_frame>>

\* The share difficulty `update` would use for the prover of the request.
difficulty_of(ps, a) ==
    IF a \in DOMAIN ps THEN ps[a].share_difficulty ELSE BASE_SHARE_DIFFICULTY

\* Mutant of verifies: the share difficulty of the prover is not applied.
verifies_AnyDifficulty(req, t, d) ==
    posw_verify(t.block_height, U64_MAX, to_header_root(t), req.nonce, req.proof)

\* Whether the proof of the request verifies against the snapshot at difficulty d.
verifies(req, t, d) ==
    posw_verify(t.block_height, d, to_header_root(t), req.nonce, req.proof)

\* PoolResponse: known_nonces.read().await.contains(&nonce)
ResponseCheckNonce ==
    /\ h_pc = "resp_check"
    /\ LET req == h_req[1]
           t == h_tmpl[1]
       IN  IF req.nonce \in known_nonces
           THEN /\ log' = "PoolResponse: duplicate share"
                /\ history' = Append(history,
                      Entry(req, t, verifies(req, t, difficulty_of(provers, req.prover)),
                            "duplicate", << >>))
                /\ h_pc' = "idle"
                /\ h_req' = << >>
                /\ h_tmpl' = << >>
           ELSE /\ h_pc' = "resp_insert"
                /\ UNCHANGED <<log, history, h_req, h_tmpl>>
    /\ UNCHANGED <<h_kind, n_requests, known_nonces, provers, shares, peers_out,
                   ledger_out, h_frame>>

\* PoolResponse: known_nonces.write().await.insert(nonce)
ResponseInsertNonce ==
    /\ h_pc = "resp_insert"
    /\ known_nonces' = known_nonces \cup {h_req[1].nonce}
    /\ h_pc' = "resp_difficulty"
    /\ UNCHANGED <<h_req, h_tmpl, h_kind, log, n_requests, history, provers, shares,
                   peers_out, ledger_out, h_frame>>

\* Mutant of ResponseDifficultyVerify: an unknown prover is given the base difficulty
\* without being inserted into the registry.
ResponseDifficultyVerify_NoInsert ==
    /\ h_pc = "resp_difficulty"
    /\ LET req == h_req[1]
           t == h_tmpl[1]
           known == req.prover \in DOMAIN provers
           d == IF known THEN provers[req.prover].share_difficulty ELSE BASE_SHARE_DIFFICULTY
       IN  /\ provers' = provers
           /\ IF verifies(req, t, d)
              THEN /\ h_pc' = "resp_credit"
                   /\ UNCHANGED <<log, history, h_req, h_tmpl>>
              ELSE /\ log' = "PoolResponse: verification failed"
                   /\ history' = Append(history, Entry(req, t, FALSE, "verify_failed", << >>))
                   /\ h_pc' = "idle"
                   /\ h_req' = << >>
                   /\ h_tmpl' = << >>
    /\ UNCHANGED <<h_kind, n_requests, known_nonces, shares, peers_out, ledger_out, h_frame>>

\* PoolResponse: retrieve (or insert) the share difficulty, then verify the proof.
ResponseDifficultyVerify ==
    /\ h_pc = "resp_difficulty"
    /\ LET req == h_req[1]
           t == h_tmpl[1]
           known == req.prover \in DOMAIN provers
           ps == or_insert(provers, req.prover, now)
           d == IF known THEN provers[req.prover].share_difficulty ELSE BASE_SHARE_DIFFICULTY
       IN  /\ provers' = ps
           /\ IF verifies(req, t, d)
              THEN /\ h_pc' = "resp_credit"
                   /\ UNCHANGED <<log, history, h_req, h_tmpl>>
              ELSE /\ log' = "PoolResponse: verification failed"
                   /\ history' = Append(history, Entry(req, t, FALSE, "verify_failed", << >>))
                   /\ h_pc' = "idle"
                   /\ h_req' = << >>
                   /\ h_tmpl' = << >>
    /\ UNCHANGED <<h_kind, n_requests, known_nonces, shares, peers_out, ledger_out, h_frame>>

\* Mutant of ResponseCredit: the handler returns when the storage write fails.
ResponseCredit_ReturnOnError(stored) ==
    /\ h_pc = "resp_credit"
    /\ LET req == h_req[1]
           t == h_tmpl[1]
           block == IF stored THEN block_from(t, req.nonce, req.proof) ELSE << >>
       IN  IF req.prover \in DOMAIN provers
           THEN /\ provers' = [provers EXCEPT ![req.prover].last_submitted = now]
                /\ shares' = IF stored THEN increment_share(shares, ShareKey(t), req.prover)
                             ELSE shares
                /\ ledger_out' = broadcast_block(ledger_out, block)
                /\ log' = IF stored THEN "valid share" ELSE "storage error"
                /\ history' = Append(history,
                      Entry(req, t, TRUE, IF stored THEN "credited" ELSE "storage_error",
                            UnconfirmedBlocks(SubSeq(ledger_out', Len(ledger_out) + 1,
                                                     Len(ledger_out')))))
           ELSE /\ log' = "Prover should have existing info"
                /\ history' = Append(history, Entry(req, t, TRUE, "no_prover_info", << >>))
                /\ UNCHANGED <<provers, shares, ledger_out>>
    /\ h_pc' = "idle"
    /\ h_req' = << >>
    /\ h_tmpl' = << >>
    /\ UNCHANGED <<h_kind, n_requests, known_nonces, peers_out, h_frame>>

\* PoolResponse after a verified proof: update last_submitted, increment the share
\* (the storage write succeeds iff `stored`), assemble the block and broadcast it.
ResponseCredit(stored) ==
    /\ h_pc = "resp_credit"
    /\ LET req == h_req[1]
           t == h_tmpl[1]
           block == block_from(t, req.nonce, req.proof)
       IN  IF req.prover \in DOMAIN provers
           THEN /\ provers' = [provers EXCEPT ![req.prover].last_submitted = now]
                /\ shares' = IF stored THEN increment_share(shares, ShareKey(t), req.prover)
                             ELSE shares
                /\ ledger_out' = broadcast_block(ledger_out, block)
                /\ log' = IF stored THEN "valid share" ELSE "storage error"
                /\ history' = Append(history,
                      Entry(req, t, TRUE, IF stored THEN "credited" ELSE "storage_error",
                            UnconfirmedBlocks(SubSeq(ledger_out', Len(ledger_out) + 1,
                                                     Len(ledger_out')))))
           ELSE /\ log' = "Prover should have existing info"
                /\ history' = Append(history, Entry(req, t, TRUE, "no_prover_info", << >>))
                /\ UNCHANGED <<provers, shares, ledger_out>>
    /\ h_pc' = "idle"
    /\ h_req' = << >>
    /\ h_tmpl' = << >>
    /\ UNCHANGED <<h_kind, n_requests, known_nonces, peers_out, h_frame>>

ResponseCreditOk == ResponseCredit(TRUE)

ResponseCreditErr == ResponseCredit(FALSE)

\* Mutant of PoolBlock: the nonce of the request is recorded like a share's.
PoolBlock_RecordsNonce(req) ==
    /\ h_pc = "idle"
    /\ n_requests < MaxRequests
    /\ req.kind = "PoolBlock"
    /\ n_requests' = n_requests + 1
    /\ h_kind' = req.kind
    /\ IF block_template = << >>
       THEN /\ log' = "PoolBlock: no template"
            /\ UNCHANGED <<ledger_out, known_nonces>>
       ELSE LET block == block_from(block_template[1], req.nonce, req.proof)
            IN  /\ ledger_out' = broadcast_block(ledger_out, block)
                /\ known_nonces' = known_nonces \cup {req.nonce}
                /\ log' = IF block = << >> THEN "PoolBlock: no block" ELSE "PoolBlock: block found"
    /\ UNCHANGED <<h_pc, h_req, h_tmpl, history, provers, shares, peers_out, h_frame>>

\* PoolBlock: assemble a block from the current template and broadcast it.
PoolBlock(req) ==
    /\ h_pc = "idle"
    /\ n_requests < MaxRequests
    /\ req.kind = "PoolBlock"
    /\ n_requests' = n_requests + 1
    /\ h_kind' = req.kind
    /\ IF block_template = << >>
       THEN /\ log' = "PoolBlock: no template"
            /\ UNCHANGED ledger_out
       ELSE LET block == block_from(block_template[1], req.nonce, req.proof)
            IN  /\ ledger_out' = broadcast_block(ledger_out, block)
                /\ log' = IF block = << >> THEN "PoolBlock: no block" ELSE "PoolBlock: block found"
    /\ UNCHANGED <<h_pc, h_req, h_tmpl, history, known_nonces, provers, shares,
                   peers_out, h_frame>>

Next ==
    \/ LedgerAdvance
    \/ StatusChange
    \/ Initialize
    \/ RefresherNotReady
    \/ RefresherCheck
    \/ RefresherBuildOk
    \/ RefresherBuildErr
    \/ RefresherWriteTemplate
    \/ RefresherClearNonces
    \/ RefresherSend
    \/ RefresherWake
    \/ \E req \in PoolRegisterRequests : RegisterStart(req)
    \/ RegisterEnsureSend
    \/ \E req \in PoolResponseRequests : ResponseStart(req)
    \/ ResponseCheckNonce
    \/ ResponseInsertNonce
    \/ ResponseDifficultyVerify
    \/ ResponseCreditOk
    \/ ResponseCreditErr
    \/ \E req \in PoolBlockRequests : PoolBlock(req)

Spec == Init /\ [][Next]_vars

\* One step of the refresher task.
RefresherStep ==
    \/ Initialize
    \/ RefresherNotReady
    \/ RefresherCheck
    \/ RefresherBuildOk
    \/ RefresherBuildErr
    \/ RefresherWriteTemplate
    \/ RefresherClearNonces
    \/ RefresherSend
    \/ RefresherWake

\* The refresher task is scheduled fairly: it is a spawned task whose awaits (locks,
\* the blocking task, the send, the sleep) all return.
FairSpec == Spec /\ WF_vars(RefresherStep)

(* ------------------------- claim definitions --------------------------- *)
Entries == 1..Len(history)

\* Entries i and j were handled against the same template and carry the same nonce.
SameTemplateAndNonce(i, j) ==
    /\ history[i].height = history[j].height
    /\ history[i].coinbase_record = history[j].coinbase_record
    /\ history[i].nonce = history[j].nonce

\* The nonce of entry i had been submitted against the same template before.
DuplicateInRotation(i) == \E j \in Entries : j < i /\ SameTemplateAndNonce(i, j)

RECURSIVE SumOver(_, _)
SumOver(f, S) ==
    IF S = {} THEN 0
    ELSE LET x == CHOOSE y \in S : TRUE IN f[x] + SumOver(f, S \ {x})

NewBlockTemplates(out) == SelectSeq(out, LAMBDA m : m.type = "NewBlockTemplate")

\* C1: within one template rotation a nonce is credited by increment_share at most
\* once: no two credited PoolResponse requests that snapshotted the same template
\* carry the same nonce.
C1_NonceCreditedAtMostOnce ==
    \A i, j \in Entries :
        (i < j /\ history[i].outcome = "credited" /\ history[j].outcome = "credited")
            => ~SameTemplateAndNonce(i, j)

\* C2: whenever the PoolResponse handler tests known_nonces or inserts into it, the
\* set belongs to the rotation of the template the handler snapshotted.
C2_NoncesOfSnapshotRotation ==
    [][(h_pc \in {"resp_check", "resp_insert"} /\ h_pc' # h_pc)
          => nonces_rot = h_tmpl[1].coinbase_record]_vars

ValidDuplicateInRotation(i) ==
    \E j \in Entries : j < i /\ SameTemplateAndNonce(i, j) /\ history[j].valid

\* C4: when no storage write has failed and no request is in flight, the shares of
\* every (height, coinbase) add up to the number of PoolResponse requests handled
\* against that template whose proof was valid and whose nonce was no duplicate
\* within the rotation, a duplicate being a nonce submitted before (or, read the
\* other way, submitted with a valid proof before).
C4_SharesEqualValidNonDuplicates ==
    (h_pc = "idle" /\ \A i \in Entries : history[i].outcome # "storage_error")
        => \A i \in Entries :
              LET k == <<history[i].height, history[i].coinbase_record>>
                  row == get_shares_for_block(k)
                  handled == {j \in Entries :
                                 /\ <<history[j].height, history[j].coinbase_record>> = k
                                 /\ history[j].valid}
              IN  \/ SumOver(row, DOMAIN row)
                       = Cardinality({j \in handled : ~DuplicateInRotation(j)})
                  \/ SumOver(row, DOMAIN row)
                       = Cardinality({j \in handled : ~ValidDuplicateInRotation(j)})

\* The UnconfirmedBlock requests of entry i are exactly one, from the local ip, for a
\* block at the height of the snapshot.
OneBlockAtSnapshotHeight(i) ==
    /\ Len(history[i].sent) = 1
    /\ history[i].sent[1].ip = LocalIp
    /\ history[i].sent[1].block[1].height = history[i].height

\* C5 (as claimed): every PoolResponse whose proof meets network difficulty sends
\* exactly one UnconfirmedBlock, at the height of its snapshot.
C5_WinningProofSendsOneBlock ==
    \A i \in Entries : history[i].wins => OneBlockAtSnapshotHeight(i)

\* C5 (amended): every PoolResponse that passes the duplicate-nonce check and the
\* share verification and whose proof meets network difficulty sends exactly one
\* UnconfirmedBlock, at the height of its snapshot.
C5_FreshWinningProofSendsOneBlock ==
    \A i \in Entries :
        (history[i].wins /\ history[i].outcome \notin {"duplicate", "verify_failed"})
            => OneBlockAtSnapshotHeight(i)

\* C5 witness: a winning PoolResponse finished after the cache was rotated, so the
\* snapshot height differs from the height of the cached template.
C5_Witness ==
    \E i \in Entries :
        /\ history[i].wins
        /\ history[i].outcome = "credited"
        /\ Len(history[i].sent) = 1
        /\ block_template # << >>
        /\ block_template[1].block_height # history[i].height

C7_InstalledTemplateOverTip ==
    [][block_template' # block_template
          => block_template'[1].block_height = latest_block_height' + 1]_vars

\* C8: during a tick whose check saw a template of height latest_block_height + 1,
\* the template is not replaced, known_nonces is not cleared and no NewBlockTemplate
\* is sent.
C8_FreshTickDoesNothing ==
    [][(r_fresh \/ r_fresh')
          => /\ block_template' = block_template
             /\ known_nonces \subseteq known_nonces'
             /\ NewBlockTemplates(peers_out') = NewBlockTemplates(peers_out)
             /\ r_pc' \in {"sleep", "loop"}]_vars

\* C8 witness: a tick found the cached template fresh and went to sleep, the cache
\* holding known nonces.
C8_Witness == r_fresh /\ r_pc = "sleep" /\ known_nonces # {}

\* C9: every prover of the registry has share difficulty u64::MAX / 5.
C9_BaseShareDifficulty ==
    \A a \in DOMAIN provers : provers[a].share_difficulty = U64_MAX \div 5

\* C9 witness: one prover was registered by an earlier request and further requests
\* and a rotation have been handled since.
C9_Witness ==
    /\ \E a \in DOMAIN provers : provers[a].last_submitted < n_requests
    /\ Cardinality(DOMAIN provers) = 2
    /\ Len(NewBlockTemplates(peers_out)) >= 2

\* C10: a PoolRegister taken while the cache holds no template finishes at once,
\* sends nothing and leaves registry, share ledger and known_nonces unchanged.
C10_RegisterWithoutTemplate ==
    [][(n_requests' = n_requests + 1 /\ h_kind' = "PoolRegister" /\ block_template = << >>)
          => /\ h_pc' = "idle"
             /\ peers_out' = peers_out
             /\ ledger_out' = ledger_out
             /\ provers' = provers
             /\ shares' = shares
             /\ known_nonces' = known_nonces]_vars

\* C10 witness: a PoolRegister was dropped for want of a template.
C10_Witness ==
    h_kind = "PoolRegister" /\ log = "PoolRegister: no template" /\ h_pc = "idle"

PoolRequests(out) == SelectSeq(out, LAMBDA m : m.type = "PoolRequest")

\* C11: a PoolRegister(peer_ip, prover) taken while the cache holds template T sends
\* nothing when it takes its snapshot and then exactly one PoolRequest(d, T) to
\* peer_ip, d being the prover's stored share difficulty, or u64::MAX / 5 for an
\* unknown prover; afterwards the registry holds the prover with difficulty d, and
\* no existing entry has changed.
C11_RegisterSendsPoolRequest ==
    [][/\ (n_requests' = n_requests + 1 /\ h_kind' = "PoolRegister" /\ block_template # << >>)
          => /\ h_pc' = "reg_ensure"
             /\ h_tmpl' = block_template
             /\ peers_out' = peers_out
             /\ provers' = provers
       /\ (h_pc = "reg_ensure" /\ h_pc' # h_pc)
          => LET p == h_req[1].prover
                 d == IF p \in DOMAIN provers THEN provers[p].share_difficulty
                      ELSE U64_MAX \div 5
             IN  /\ h_pc' = "idle"
                 /\ peers_out' = Append(peers_out,
                       [type |-> "PoolRequest", to |-> h_req[1].peer_ip,
                        difficulty |-> d, template |-> h_tmpl[1]])
                 /\ DOMAIN provers' = DOMAIN provers \cup {p}
                 /\ provers'[p].share_difficulty = d
                 /\ \A a \in DOMAIN provers : provers'[a] = provers[a]]_vars

\* C11 witness: a PoolRegister of a prover known from an earlier request was answered
\* with a PoolRequest, its entry keeping the earlier last_submitted.
C11_Witness ==
    /\ h_kind = "PoolRegister"
    /\ log = "PoolRequest sent"
    /\ Len(PoolRequests(peers_out)) >= 1
    /\ LET m == PoolRequests(peers_out)[Len(PoolRequests(peers_out))]
       IN  /\ m.difficulty = U64_MAX \div 5
           /\ \E a \in DOMAIN provers : provers[a].last_submitted < n_requests

\* C12: the share ledger changes only in a PoolResponse whose proof verifies for the
\* snapshot's height and header root, the submitted nonce and the prover's share
\* difficulty; and a PoolResponse whose verification fails ends there, credits no
\* share, sends nothing to the ledger and leaves every existing registry entry,
\* last_submitted included, as it was.
C12_CreditOnlyAfterVerification ==
    [][/\ shares' # shares
          => /\ h_pc = "resp_credit"
             /\ h_req[1].prover \in DOMAIN provers
             /\ posw_verify(h_tmpl[1].block_height,
                            provers[h_req[1].prover].share_difficulty,
                            h_tmpl[1].coinbase_record, h_req[1].nonce, h_req[1].proof)
       /\ ( /\ h_pc = "resp_difficulty"
            /\ h_pc' # h_pc
            /\ ~posw_verify(h_tmpl[1].block_height,
                            IF h_req[1].prover \in DOMAIN provers
                            THEN provers[h_req[1].prover].share_difficulty
                            ELSE U64_MAX \div 5,
                            h_tmpl[1].coinbase_record, h_req[1].nonce, h_req[1].proof) )
          => /\ h_pc' = "idle"
             /\ shares' = shares
             /\ ledger_out' = ledger_out
             /\ \A a \in DOMAIN provers : provers'[a] = provers[a]]_vars

\* C12 witness: the verification of a PoolResponse of a prover known from an earlier
\* request failed, and a share has been credited.
C12_Witness ==
    /\ log = "PoolResponse: verification failed"
    /\ history # << >>
    /\ LET e == history[Len(history)]
       IN  /\ e.outcome = "verify_failed"
           /\ e.prover \in DOMAIN provers
           /\ provers[e.prover].last_submitted < n_requests
    /\ shares # << >>

\* C13: when increment_share fails in a PoolResponse, the share ledger is unchanged and
\* the handler still assembles the block: a proof that meets the network difficulty of
\* the snapshot has the coinbase cache invalidated and one UnconfirmedBlock sent, and
\* any other proof sends nothing.
C13_StorageErrorStillBroadcasts ==
    [][( /\ h_pc = "resp_credit"
         /\ Len(history') = Len(history) + 1
         /\ history'[Len(history')].outcome = "storage_error" )
          => /\ shares' = shares
             /\ IF /\ h_req[1].proof.root = h_tmpl[1].coinbase_record
                   /\ h_req[1].proof.nonce = h_req[1].nonce
                   /\ h_req[1].proof.value <= h_tmpl[1].difficulty_target
                THEN ledger_out' = ledger_out \o
                       << [op |-> "invalidate_coinbase_cache", ip |-> LocalIp, block |-> << >>],
                          [op |-> "UnconfirmedBlock", ip |-> LocalIp,
                           block |-> << [height |-> h_tmpl[1].block_height,
                                         coinbase_record |-> h_tmpl[1].coinbase_record,
                                         nonce |-> h_req[1].nonce] >>] >>
                ELSE ledger_out' = ledger_out]_vars

\* C13 witness: a PoolResponse whose share could not be stored sent its block, and the
\* share ledger is empty.
C13_Witness ==
    /\ shares = << >>
    /\ \E i \in Entries :
          /\ history[i].outcome = "storage_error"
          /\ history[i].wins
          /\ Len(history[i].sent) = 1
    /\ Len(UnconfirmedBlocks(ledger_out)) >= 1

\* C14: a request of `update` that calls the ledger invalidates the coinbase cache
\* once and then sends one UnconfirmedBlock carrying a block; the cache is never
\* invalidated without a block being sent after it in the same request.
C14_InvalidateBeforeBroadcast ==
    [][ledger_out' # ledger_out
          => /\ h_kind' \in {"PoolResponse", "PoolBlock"}
             /\ Len(ledger_out') = Len(ledger_out) + 2
             /\ SubSeq(ledger_out', 1, Len(ledger_out)) = ledger_out
             /\ ledger_out'[Len(ledger_out) + 1].op = "invalidate_coinbase_cache"
             /\ ledger_out'[Len(ledger_out) + 2].op = "UnconfirmedBlock"
             /\ ledger_out'[Len(ledger_out) + 2].block # << >>]_vars

\* C14 witness: a PoolResponse and a PoolBlock have each sent a block.
C14_Witness ==
    /\ Len(UnconfirmedBlocks(ledger_out)) = 2
    /\ \E i \in Entries : Len(history[i].sent) = 1
    /\ log = "PoolBlock: block found"

\* C15: a PoolBlock request leaves the share ledger, the prover registry and
\* known_nonces unchanged; with no template in the cache it emits nothing, and with
\* one it emits an UnconfirmedBlock built from that template exactly when the proof
\* is a valid proof for the template's header under the template's difficulty target.
C15_PoolBlockFrameAndEffect ==
    [][\A req \in PoolBlockRequests :
         PoolBlock(req)
           => /\ shares' = shares
              /\ provers' = provers
              /\ known_nonces' = known_nonces
              /\ peers_out' = peers_out
              /\ block_template' = block_template
              /\ IF /\ block_template # << >>
                    /\ req.proof.root = block_template[1].coinbase_record
                    /\ req.proof.nonce = req.nonce
                    /\ req.proof.value <= block_template[1].difficulty_target
                 THEN ledger_out' = ledger_out \o
                        << [op |-> "invalidate_coinbase_cache", ip |-> LocalIp,
                            block |-> << >>],
                           [op |-> "UnconfirmedBlock", ip |-> LocalIp,
                            block |-> << [height |-> block_template[1].block_height,
                                          coinbase_record |->
                                              block_template[1].coinbase_record,
                                          nonce |-> req.nonce] >>] >>
                 ELSE ledger_out' = ledger_out]_vars

\* C15 witness: PoolBlock requests have been handled with a template in the cache and
\* registered provers, credited shares and recorded nonces in place; one produced a
\* block and left them as they were.
C15_Witness ==
    /\ h_kind = "PoolBlock"
    /\ log = "PoolBlock: block found"
    /\ block_template # << >>
    /\ known_nonces # {}
    /\ DOMAIN provers # {}
    /\ \E i \in Entries : history[i].outcome = "credited"

\* C16: a failed template construction leaves block_template and known_nonces as
\* they were and sends no NewBlockTemplate; the refresher then sleeps, wakes, and
\* while the node is ready and the template is still stale it starts constructing
\* again.
C16_FailedBuildRetries ==
    [][/\ (r_pc = "build" /\ r_pc' # r_pc /\ r_failed')
            => /\ block_template' = block_template
               /\ known_nonces' = known_nonces
               /\ peers_out' = peers_out
               /\ r_pc' = "sleep"
       /\ r_failed' => r_pc' \in {"sleep", "loop", "build"}
       /\ (r_failed /\ r_pc = "sleep" /\ r_pc' # r_pc) => r_pc' = "loop"
       /\ (r_failed /\ r_pc = "loop" /\ r_pc' # r_pc)
            => /\ is_block_template_stale
               /\ r_pc' = IF ready THEN "build" ELSE "sleep"]_vars

\* C16 witness: a construction failed while a template, recorded nonces and an
\* announced template were in place, and the refresher is constructing again.
C16_Witness ==
    /\ r_failed
    /\ r_pc = "build"
    /\ block_template # << >>
    /\ known_nonces # {}
    /\ peers_out # << >>

\* C17: unless the node type is Operator and an operator address is present the
\* refresher is never running, the cache stays empty, nothing is sent to peers or to
\* the ledger and no share is credited, whatever requests are handled.
C17_InactiveWithoutOperatorAddress ==
    ~(node_type = "Operator" /\ address # << >>)
        => /\ r_pc \in {"init", "off"}
           /\ block_template = << >>
           /\ known_nonces = {}
           /\ peers_out = << >>
           /\ ledger_out = << >>
           /\ DOMAIN shares = {}
           /\ history = << >>

\* C17 witness: an operator without an address has refused to start and has since
\* handled requests, the last one a PoolResponse.
C17_Witness ==
    /\ node_type = "Operator"
    /\ address = << >>
    /\ r_pc = "off"
    /\ n_requests = MaxRequests
    /\ log = "PoolResponse: no template"

\* The cache holds a template over the ledger's tip.
TemplateOverTip ==
    /\ block_template # << >>
    /\ block_template[1].block_height = latest_block_height + 1

\* C18: with the refresher running and fairly scheduled, if the node is eventually
\* ready for good and a template construction that is attempted again and again
\* eventually succeeds, then eventually the cache holds a template of height
\* latest_block_height + 1 and holds one from then on.
C18_EventuallyTemplateOverTip ==
    (/\ node_type = "Operator" /\ address # << >>
     /\ <>[]ready
     /\ SF_vars(RefresherBuildOk))
        => <>[]TemplateOverTip

\* C18 witness: the tip advanced under a cached template, and the refresher replaced
\* it by a template over the new tip.
C18_Witness ==
    /\ TemplateOverTip
    /\ latest_block_height = MaxHeight
    /\ Len(NewBlockTemplates(peers_out)) = 2
    /\ r_pc = "sleep"

\* C19: a PoolResponse whose verification failed has consumed its nonce: no later
\* PoolResponse handled against the same template with that nonce credits a share
\* (it is rejected as a duplicate), whatever its proof and prover.
C19_FailedProofConsumesNonce ==
    \A i, j \in Entries :
        (i < j /\ SameTemplateAndNonce(i, j) /\ history[i].outcome = "verify_failed")
            => history[j].outcome # "credited"

\* C20: no step removes a prover from the registry, so a PoolResponse that has passed
\* verification finds its prover in the registry at the last_submitted update, and
\* the "Prover should have existing info" branch is never taken.
C20_ProverPresentAtTouch ==
    [][/\ DOMAIN provers \subseteq DOMAIN provers'
       /\ h_pc' = "resp_credit" => h_req'[1].prover \in DOMAIN provers'
       /\ log' # "Prover should have existing info"
       /\ \A i \in 1..Len(history') : history'[i].outcome # "no_prover_info"]_vars

\* C20 witness: no PoolRegister has registered anyone, one PoolResponse of a new
\* prover has been credited, and the PoolResponse of another new prover has passed
\* verification and is at the last_submitted update.
C20_Witness ==
    /\ h_pc = "resp_credit"
    /\ PoolRequests(peers_out) = << >>
    /\ Len(history) = 1
    /\ history[1].outcome = "credited"
    /\ h_req[1].prover # history[1].prover
    /\ DOMAIN provers = {history[1].prover, h_req[1].prover}
====
